---- MODULE Spec2Model ----
(***************************************************************************)
(* Model of systemrdl/rdltypes/user_struct.py: the UserStruct class, the   *)
(* struct types derived from it with define_new, and the struct values     *)
(* built by __init__ and read through attribute access.                    *)
(*                                                                         *)
(* Python objects are modelled with reference semantics: every dict lives  *)
(* in a heap and is named by its index, so that sharing one dict between   *)
(* two holders is a state the model can be in.                             *)
(***************************************************************************)
EXTENDS Integers, Sequences, FiniteSets, TLC

VARIABLES
    classes,       \* the UserStruct class objects; classes[1] is UserStruct
    members_heap,  \* the OrderedDict objects held in a class's _members
    values_heap,   \* the dict objects created by callers and passed as values
    instances,     \* the UserStruct instances constructed so far
    last           \* the most recent call: its arguments and what it returned

vars == <<classes, members_heap, values_heap, instances, last>>

-----------------------------------------------------------------------------
(* Bounds of the model *)

MaxClasses == 3
MaxDicts == 1
MaxInstances == 1

-----------------------------------------------------------------------------
(* Inputs *)

MemberNames == {"x", "define_new"}
MemberValues == {3, 4}
TypeNames == {"Point"}
Separators == {"::", "#"}
ReadNames == MemberNames \cup {"z", "_members", "_values", "__setstate__"}

\* The type each member name is declared with. Member types are opaque
\* handles: no line of the code inspects them.
DeclType(k) == IF k = "x" THEN "longint" ELSE "bool"

\* The index of the UserStruct class itself
UserStruct == 1

\* Exception raised by a call, or NoError when it returned
NoError == "NoError"
ErrAbstract == "TypeError: Cannot create instance of an abstract struct type"
ErrMismatch == "ValueError: Cannot map 'values' to this struct"
ErrOverlap == "ValueError: 'members' contains keys that overlap with parent"
ErrAttribute == "AttributeError"

\* A class that has no _parent_scope entry in its own __dict__
Unset == "Unset"
\* Python's None
None == "None"

-----------------------------------------------------------------------------
(* OrderedDict: a sequence of <<key, value>> pairs in insertion order      *)

Keys(d) == [i \in 1..Len(d) |-> d[i][1]]

KeySet(d) == {d[i][1] : i \in 1..Len(d)}

\* A d[k] = v that puts a new key first instead of last
OrderedDictPrepend(d, k, v) ==
    IF k \in KeySet(d)
    THEN [i \in 1..Len(d) |-> IF d[i][1] = k THEN <<k, v>> ELSE d[i]]
    ELSE <<<<k, v>>>> \o d

\* d[k] = v: an existing key keeps its position, a new key goes last
OrderedDictSetItem(d, k, v) ==
    IF k \in KeySet(d)
    THEN [i \in 1..Len(d) |-> IF d[i][1] = k THEN <<k, v>> ELSE d[i]]
    ELSE Append(d, <<k, v>>)

\* d.update(src): src's items are set one by one in src's order
RECURSIVE OrderedDictUpdate(_, _)
OrderedDictUpdate(d, src) ==
    IF src = <<>> THEN d
    ELSE OrderedDictUpdate(OrderedDictSetItem(d, src[1][1], src[1][2]), Tail(src))

\* The member maps a caller can pass to define_new: dicts of at most two
\* members, in either order
MemberMaps ==
    {<<>>}
    \cup {<<<<k, DeclType(k)>>>> : k \in MemberNames}
    \cup {<<<<p[1], DeclType(p[1])>>, <<p[2], DeclType(p[2])>>>> :
            p \in {q \in MemberNames \X MemberNames : q[1] # q[2]}}

-----------------------------------------------------------------------------
(* dict, as the code uses the values argument: its key set, k in d and     *)
(* d[k]. A set of <<key, value>> pairs with no key twice.                  *)

DictKeySet(d) == {e[1] : e \in d}

\* d[k]
DictGetItem(d, k) == (CHOOSE e \in d : e[1] = k)[2]

\* d[k] = v
DictSetItem(d, k, v) == {e \in d : e[1] # k} \cup {<<k, v>>}

\* del d[k]
DictDelItem(d, k) == {e \in d : e[1] # k}

-----------------------------------------------------------------------------
(* The scope tree of the component model: B is declared in A, A in the     *)
(* root scope.                                                             *)

Scopes == {"Root", "A", "B"}

\* isinstance(scope, comp.Root)
IsRoot(scope) == scope = "Root"

\* Component.parent_scope
ScopeParent(scope) ==
    CASE scope = "B" -> "A"
      [] scope = "A" -> "Root"
      [] OTHER -> None

\* Component._scope_name
ScopeName(scope) ==
    CASE scope = "B" -> "b"
      [] scope = "A" -> "a"
      [] OTHER -> ""

\* Component.get_scope_path
RECURSIVE ComponentScopePath(_, _)
ComponentScopePath(scope, scope_separator) ==
    LET parent_scope == ScopeParent(scope)
    IN IF parent_scope = None THEN ""
       ELSE IF IsRoot(parent_scope) THEN ""
       ELSE LET parent_path == ComponentScopePath(parent_scope, scope_separator)
            IN IF parent_path # ""
               THEN parent_path \o scope_separator \o ScopeName(parent_scope)
               ELSE ScopeName(parent_scope)

-----------------------------------------------------------------------------
(* The record of the most recent call *)

NoGet == [kind |-> "none", attr |-> "", val |-> 0]

NoCall ==
    [op |-> "none", cls |-> 0, name |-> "", members |-> <<>>,
     is_abstract |-> FALSE, vid |-> 0, inst |-> 0, scope |-> None, sep |-> "",
     err |-> NoError, ret |-> 0, path |-> "", got |-> NoGet]

-----------------------------------------------------------------------------
(* UserStruct.define_new *)

\* m = cls._members: the class's own dict object, not a copy of it
AliasMembers(heap, id) == [heap |-> heap, m |-> id]

\* m = OrderedDict(cls._members): a new dict object with the same items
CopyMembers(heap, id) == [heap |-> Append(heap, heap[id]), m |-> Len(heap) + 1]

\* set(members.keys()) <= set(m.keys())
OverlapsSubset(m, members) == KeySet(members) \subseteq KeySet(m)

\* set(m.keys()) & set(members.keys())
Overlaps(m, members) == KeySet(m) \cap KeySet(members) # {}

\* type(name, (cls,), classdict): the new class has _members and _is_abstract
\* in its own dict and no _parent_scope of its own. own is a history field:
\* the keys of the members argument this class was defined with.
NewClass(cls, name, m, is_abstract, members) ==
    [name |-> name, base |-> cls, own |-> Keys(members), _members |-> m,
     _is_abstract |-> is_abstract, _parent_scope |-> Unset]

\* What define_new(name, members, is_abstract) called on class cls does to
\* the class table cs and the heap: the exception it raises, the class table
\* and heap it leaves, the class it returns
define_new(cs, heap, cls, name, members, is_abstract) ==
    LET c == CopyMembers(heap, cs[cls]._members)
    IN IF Overlaps(c.heap[c.m], members)
       THEN [err |-> ErrOverlap, classes |-> cs, heap |-> heap, ret |-> 0]
       ELSE [err |-> NoError,
             classes |-> Append(cs, NewClass(cls, name, c.m, is_abstract, members)),
             heap |-> [c.heap EXCEPT ![c.m] = OrderedDictUpdate(@, members)],
             ret |-> Len(cs) + 1]

DefineNew(cls, name, members, is_abstract) ==
    LET r == define_new(classes, members_heap, cls, name, members, is_abstract)
    IN /\ r.err = NoError => Len(classes) < MaxClasses
       /\ classes' = r.classes
       /\ members_heap' = r.heap
       /\ last' = [NoCall EXCEPT !.op = "define_new", !.cls = cls, !.name = name,
                                 !.members = members, !.is_abstract = is_abstract,
                                 !.err = r.err, !.ret = r.ret]
       /\ UNCHANGED <<values_heap, instances>>

-----------------------------------------------------------------------------
(* The caller's values dict: created empty, then filled and changed at     *)
(* will, before and after it is passed to UserStruct.__init__              *)

NewDict ==
    /\ Len(values_heap) < MaxDicts
    /\ values_heap' = Append(values_heap, {})
    /\ last' = [NoCall EXCEPT !.op = "dict", !.vid = Len(values_heap) + 1]
    /\ UNCHANGED <<classes, members_heap, instances>>

SetItem(vid, k, v) ==
    /\ values_heap' = [values_heap EXCEPT ![vid] = DictSetItem(@, k, v)]
    /\ last' = [NoCall EXCEPT !.op = "setitem", !.vid = vid, !.name = k]
    /\ UNCHANGED <<classes, members_heap, instances>>

DelItem(vid, k) ==
    /\ k \in DictKeySet(values_heap[vid])
    /\ values_heap' = [values_heap EXCEPT ![vid] = DictDelItem(@, k)]
    /\ last' = [NoCall EXCEPT !.op = "delitem", !.vid = vid, !.name = k]
    /\ UNCHANGED <<classes, members_heap, instances>>

-----------------------------------------------------------------------------
(* UserStruct.__init__ *)

\* The key check made before the abstract check
InitRaisesKeysFirst(is_abstract, value_keys, member_keys) ==
    IF value_keys # member_keys THEN ErrMismatch
    ELSE IF is_abstract THEN ErrAbstract
    ELSE NoError

\* set(values.keys()) <= set(self._members.keys()) in place of !=
InitRaisesSubset(is_abstract, value_keys, member_keys) ==
    IF is_abstract THEN ErrAbstract
    ELSE IF ~(value_keys \subseteq member_keys) THEN ErrMismatch
    ELSE NoError

\* The exception __init__ raises, NoError when it raises none
InitRaises(is_abstract, value_keys, member_keys) ==
    IF is_abstract THEN ErrAbstract
    ELSE IF value_keys # member_keys THEN ErrMismatch
    ELSE NoError

\* self._values = values: the instance holds the caller's dict object.
\* init is a history field: the items of values when __init__ ran.
__init__(cls, vid) ==
    LET err == InitRaises(classes[cls]._is_abstract, DictKeySet(values_heap[vid]),
                          KeySet(members_heap[classes[cls]._members]))
        call == [NoCall EXCEPT !.op = "__init__", !.cls = cls, !.vid = vid]
    IN IF err # NoError
       THEN /\ last' = [call EXCEPT !.err = err]
            /\ UNCHANGED <<classes, members_heap, values_heap, instances>>
       ELSE /\ Len(instances) < MaxInstances
            /\ instances' = Append(instances,
                   [cls |-> cls, _values |-> vid, init |-> values_heap[vid]])
            /\ last' = [call EXCEPT !.ret = Len(instances) + 1]
            /\ UNCHANGED <<classes, members_heap, values_heap>>

-----------------------------------------------------------------------------
(* Attribute access on an instance: getattr(prop, name)                    *)

\* Names bound in the class body of UserStruct
ClassAttrNames ==
    {"_members", "_is_abstract", "_parent_scope", "__init__", "define_new",
     "__getattr__", "_set_parent_scope", "get_parent_scope", "get_scope_path",
     "__repr__"}

\* Names bound in the instance's own __dict__
InstanceAttrNames == {"_values"}

\* UserStruct.__getattr__: Python calls it only when the normal lookup of
\* name, in the instance and then in its class, found nothing
__getattr__(values, name) ==
    IF name = "__setstate__"
    THEN [err |-> ErrAttribute, got |-> NoGet]
    ELSE IF name \in DictKeySet(values)
    THEN [err |-> NoError,
          got |-> [kind |-> "member", attr |-> name, val |-> DictGetItem(values, name)]]
    ELSE [err |-> ErrAttribute, got |-> NoGet]

AttributeLookup(inst, name) ==
    IF name \in InstanceAttrNames
    THEN [err |-> NoError, got |-> [kind |-> "instance_attr", attr |-> name, val |-> 0]]
    ELSE IF name \in ClassAttrNames
    THEN [err |-> NoError, got |-> [kind |-> "class_attr", attr |-> name, val |-> 0]]
    ELSE __getattr__(values_heap[instances[inst]._values], name)

GetAttr(inst, name) ==
    LET r == AttributeLookup(inst, name)
    IN /\ last' = [NoCall EXCEPT !.op = "getattr", !.inst = inst, !.name = name,
                                 !.err = r.err, !.got = r.got]
       /\ UNCHANGED <<classes, members_heap, values_heap, instances>>

-----------------------------------------------------------------------------
(* Parent scope *)

\* cls._parent_scope = scope
_set_parent_scope(cls, scope) ==
    /\ classes' = [classes EXCEPT ![cls]._parent_scope = scope]
    /\ last' = [NoCall EXCEPT !.op = "_set_parent_scope", !.cls = cls, !.scope = scope]
    /\ UNCHANGED <<members_heap, values_heap, instances>>

\* A lookup that asks the base class before the class itself
RECURSIVE ParentScopeOfBaseFirst(_)
ParentScopeOfBaseFirst(cls) ==
    IF classes[cls].base = 0 THEN classes[cls]._parent_scope
    ELSE LET inherited == ParentScopeOfBaseFirst(classes[cls].base)
         IN IF inherited # None THEN inherited
            ELSE IF classes[cls]._parent_scope # Unset THEN classes[cls]._parent_scope
            ELSE None

\* getattr(cls, "_parent_scope", None): the entry of the first class that
\* has one, from cls up its bases; UserStruct has one (None, or what was set)
RECURSIVE get_parent_scope(_)
get_parent_scope(cls) ==
    IF classes[cls]._parent_scope # Unset THEN classes[cls]._parent_scope
    ELSE get_parent_scope(classes[cls].base)

GetParentScope(cls) ==
    /\ last' = [NoCall EXCEPT !.op = "get_parent_scope", !.cls = cls,
                              !.scope = get_parent_scope(cls)]
    /\ UNCHANGED <<classes, members_heap, values_heap, instances>>

get_scope_path(cls, scope_separator) ==
    LET parent_scope == get_parent_scope(cls)
    IN IF parent_scope = None THEN ""
       ELSE IF IsRoot(parent_scope) THEN ""
       ELSE LET parent_path == ComponentScopePath(parent_scope, scope_separator)
            IN IF parent_path # ""
               THEN parent_path \o scope_separator \o ScopeName(parent_scope)
               ELSE ScopeName(parent_scope)

GetScopePath(cls, scope_separator) ==
    /\ last' = [NoCall EXCEPT !.op = "get_scope_path", !.cls = cls,
                              !.sep = scope_separator,
                              !.path = get_scope_path(cls, scope_separator)]
    /\ UNCHANGED <<classes, members_heap, values_heap, instances>>

\* cls._members.keys(): the member names of a struct type, in order
member_names(cls) == Keys(members_heap[classes[cls]._members])

-----------------------------------------------------------------------------
(* State after the module is imported: the UserStruct class alone *)

UserStructClass ==
    [name |-> "UserStruct", base |-> 0, own |-> <<>>, _members |-> 1,
     _is_abstract |-> TRUE, _parent_scope |-> None]

Init ==
    /\ classes = <<UserStructClass>>
    /\ members_heap = <<<<>>>>
    /\ values_heap = <<>>
    /\ instances = <<>>
    /\ last = NoCall

-----------------------------------------------------------------------------
(* The calls, with their arguments drawn from the given sets *)

DoDefineNew(maps, flags) ==
    \E cls \in 1..Len(classes), name \in TypeNames, members \in maps,
       is_abstract \in flags :
        DefineNew(cls, name, members, is_abstract)

DoSetItem ==
    \E vid \in 1..Len(values_heap), k \in MemberNames, v \in MemberValues :
        SetItem(vid, k, v)

DoDelItem ==
    \E vid \in 1..Len(values_heap), k \in MemberNames : DelItem(vid, k)

DoInit ==
    \E cls \in 1..Len(classes), vid \in 1..Len(values_heap) : __init__(cls, vid)

DoGetAttr ==
    \E inst \in 1..Len(instances), name \in ReadNames : GetAttr(inst, name)

\* The importer tags the struct types it defines, never UserStruct itself
DoSetParentScope(scopes) ==
    \E cls \in 2..Len(classes), scope \in scopes : _set_parent_scope(cls, scope)

DoGetParentScope ==
    \E cls \in 1..Len(classes) : GetParentScope(cls)

DoGetScopePath ==
    \E cls \in 1..Len(classes), sep \in Separators : GetScopePath(cls, sep)

\* Deriving struct types
NextDerive ==
    \/ DoDefineNew(MemberMaps, BOOLEAN)

SpecDerive == Init /\ [][NextDerive]_vars

\* Deriving struct types whose bases have a parent scope
NextFrame ==
    \/ DoDefineNew({m \in MemberMaps : Len(m) <= 1}, BOOLEAN)
    \/ DoSetParentScope({"B"})

SpecFrame == Init /\ [][NextFrame]_vars

\* The struct types of a finished declaration phase: an abstract Base with
\* member x, a Point derived from Base that adds member define_new, and a
\* Scalar with the one member x, as their define_new calls leave them
DeclaredTypes ==
    LET base == define_new(<<UserStructClass>>, <<<<>>>>, UserStruct, "Base",
                           <<<<"x", DeclType("x")>>>>, TRUE)
        point == define_new(base.classes, base.heap, base.ret, "Point",
                            <<<<"define_new", DeclType("define_new")>>>>, FALSE)
    IN define_new(point.classes, point.heap, UserStruct, "Scalar",
                  <<<<"x", DeclType("x")>>>>, FALSE)

InitValue ==
    /\ classes = DeclaredTypes.classes
    /\ members_heap = DeclaredTypes.heap
    /\ values_heap = <<>>
    /\ instances = <<>>
    /\ last = NoCall

\* Constructing and reading struct values of the declared types
NextValue ==
    \/ NewDict
    \/ DoSetItem
    \/ DoDelItem
    \/ DoInit
    \/ DoGetAttr

SpecValue == InitValue /\ [][NextValue]_vars

\* Declaration scopes
NextScope ==
    \/ DoDefineNew({<<>>}, {FALSE})
    \/ DoSetParentScope(Scopes)
    \/ DoGetParentScope
    \/ DoGetScopePath

SpecScope == Init /\ [][NextScope]_vars

-----------------------------------------------------------------------------
(* What the properties below speak of *)

Classes == 1..Len(classes)

\* The names a struct type declares along its derivation chain, from the
\* root's down to its own, each class contributing the keys it was defined with
RECURSIVE ChainNames(_)
ChainNames(cls) ==
    IF classes[cls].base = 0 THEN classes[cls].own
    ELSE ChainNames(classes[cls].base) \o classes[cls].own

InheritedNames(cls) == {ChainNames(cls)[i] : i \in 1..Len(ChainNames(cls))}

\* A class on which _set_parent_scope has been called
HasOwnScope(cls) == classes[cls]._parent_scope \in Scopes

\* The names of the non-root scopes from the outermost down to scope itself
RECURSIVE EnclosingScopeNames(_)
EnclosingScopeNames(scope) ==
    IF scope \notin Scopes \/ IsRoot(scope) THEN <<>>
    ELSE Append(EnclosingScopeNames(ScopeParent(scope)), ScopeName(scope))

RECURSIVE JoinNames(_, _)
JoinNames(names, sep) ==
    IF names = <<>> THEN ""
    ELSE IF Len(names) = 1 THEN names[1]
    ELSE names[1] \o sep \o JoinNames(Tail(names), sep)

-----------------------------------------------------------------------------
(* Properties *)

\* C1: define_new on a base class raises the overlap error exactly when a key
\* of the new members is a name declared by the base or by any ancestor of the
\* base; otherwise it returns a new class derived from that base.
C1_CollisionIffInherited ==
    last.op = "define_new" =>
        /\ last.err \in {NoError, ErrOverlap}
        /\ last.err = ErrOverlap <=>
               KeySet(last.members) \cap InheritedNames(last.cls) # {}
        /\ last.err = ErrOverlap => last.ret = 0
        /\ last.err = NoError =>
               /\ last.ret = Len(classes)
               /\ classes[last.ret].base = last.cls

\* A derivation rejected for a name that only a grandparent declares
C1_Witness ==
    /\ last.op = "define_new"
    /\ last.err = ErrOverlap
    /\ classes[last.cls].base # 0
    /\ KeySet(last.members) \cap
           {classes[last.cls].own[i] : i \in 1..Len(classes[last.cls].own)} = {}

\* C2: the member names of a derived class are its base's member names, in
\* the base's order, followed by the new keys in their order, and so along
\* every derivation chain.
C2_InheritedThenNew ==
    /\ \A cls \in Classes : member_names(cls) = ChainNames(cls)
    /\ (last.op = "define_new" /\ last.err = NoError) =>
           member_names(last.ret) = member_names(last.cls) \o Keys(last.members)

\* A second-level derivation that adds a member to a base that has one
C2_Witness ==
    /\ last.op = "define_new"
    /\ last.err = NoError
    /\ last.cls # UserStruct
    /\ Len(member_names(last.cls)) >= 1
    /\ Len(last.members) >= 1

\* C3: on a non-abstract class __init__ succeeds exactly when the keys of
\* values are the class's member names, own and inherited; otherwise it raises
\* the one mismatch error and no instance is made.
C3_ExactMembership ==
    [][(last'.op = "__init__" /\ ~classes[last'.cls]._is_abstract) =>
          IF DictKeySet(values_heap[last'.vid]) = InheritedNames(last'.cls)
          THEN /\ last'.err = NoError
               /\ Len(instances') = Len(instances) + 1
               /\ last'.ret = Len(instances')
               /\ instances'[last'.ret].cls = last'.cls
          ELSE /\ last'.err = ErrMismatch
               /\ instances' = instances]_vars

\* A construction rejected with one key missing and another one extra
C3_Witness ==
    /\ last.op = "__init__"
    /\ last.err = ErrMismatch
    /\ InheritedNames(last.cls) \ DictKeySet(values_heap[last.vid]) # {}
    /\ DictKeySet(values_heap[last.vid]) \ InheritedNames(last.cls) # {}

\* C4: __init__ on an abstract class raises the abstract error whatever the
\* values are, and no instance has an abstract class as its type.
C4_AbstractGuard ==
    /\ (last.op = "__init__" /\ classes[last.cls]._is_abstract) =>
           (last.err = ErrAbstract /\ last.ret = 0)
    /\ \A i \in 1..Len(instances) : ~classes[instances[i].cls]._is_abstract

\* An abstract derived class refused although the keys do not match either
C4_Witness ==
    /\ last.op = "__init__"
    /\ last.cls # UserStruct
    /\ classes[last.cls]._is_abstract
    /\ DictKeySet(values_heap[last.vid]) # InheritedNames(last.cls)

\* C5: reading a member name of an instance returns the value supplied for it
\* at construction, and reading any other name raises AttributeError.
C5_ReadReturnsSupplied ==
    last.op = "getattr" =>
        IF last.name \in InheritedNames(instances[last.inst].cls)
        THEN /\ last.err = NoError
             /\ last.got.kind = "member"
             /\ last.got.val = DictGetItem(instances[last.inst].init, last.name)
        ELSE last.err = ErrAttribute

\* C6: get_scope_path is empty when no parent scope was set on the class or
\* the one set is the root scope; otherwise it is the names of the enclosing
\* non-root scopes, outermost first, joined by the separator.
C6_ScopePath ==
    last.op = "get_scope_path" =>
        last.path = JoinNames(EnclosingScopeNames(classes[last.cls]._parent_scope),
                              last.sep)

\* C6 over the scope get_parent_scope returns, the class's own or the one of
\* its nearest tagged base: the path is that scope's chain of names.
C6_ScopePathOfResolvedScope ==
    last.op = "get_scope_path" =>
        last.path = JoinNames(EnclosingScopeNames(get_parent_scope(last.cls)),
                              last.sep)

\* C7: until _set_parent_scope is called on a class itself, get_parent_scope
\* on it returns None and get_scope_path returns the empty string.
C7_NoScopeUntilSet ==
    \A cls \in Classes :
        ~HasOwnScope(cls) =>
            /\ get_parent_scope(cls) = None
            /\ \A sep \in Separators : get_scope_path(cls, sep) = ""

\* C8: define_new, whether it returns or raises, leaves every existing class
\* as it was (members with their types and order, abstract flag, parent
\* scope), makes no class when it raises and exactly one when it returns, and
\* every class still has its base's members followed by its own.
C8_DeriveLeavesOthersUnchanged ==
    [][last'.op = "define_new" =>
          /\ \A cls \in Classes :
                 /\ cls \in 1..Len(classes')
                 /\ classes'[cls] = classes[cls]
                 /\ members_heap'[classes'[cls]._members] =
                        members_heap[classes[cls]._members]
                 /\ get_parent_scope(cls)' = get_parent_scope(cls)
          /\ last'.err # NoError => Len(classes') = Len(classes)
          /\ last'.err = NoError => Len(classes') = Len(classes) + 1
          /\ \A cls \in 1..Len(classes') :
                 classes'[cls].base # 0 =>
                     Keys(members_heap'[classes'[cls]._members]) =
                         Keys(members_heap'[classes'[classes'[cls].base]._members])
                             \o classes'[cls].own
          /\ instances' = instances
          /\ values_heap' = values_heap]_vars

\* A class derived from a base that has a member and a parent scope
C8_Witness ==
    /\ last.op = "define_new"
    /\ last.err = NoError
    /\ HasOwnScope(last.cls)
    /\ Len(member_names(last.cls)) >= 1
    /\ Len(last.members) >= 1

\* C9 as stated: once a parent scope is set on a class, get_parent_scope on
\* it returns the same scope after every later call.
C9_ScopeFixedOnceSet ==
    [][\A cls \in Classes :
          HasOwnScope(cls) => get_parent_scope(cls)' = get_parent_scope(cls)]_vars

\* C9 amended: once a parent scope is set on a class, get_parent_scope on it
\* changes only by a later _set_parent_scope on that same class, which
\* replaces it by the scope given; no other call changes it.
C9_ScopeChangesOnlyByOwnSet ==
    [][\A cls \in Classes :
          HasOwnScope(cls) =>
              \/ get_parent_scope(cls)' = get_parent_scope(cls)
              \/ /\ last'.op = "_set_parent_scope"
                 /\ last'.cls = cls
                 /\ get_parent_scope(cls)' = last'.scope]_vars

\* A class that keeps its scope after its base was given another one
C9_Witness ==
    /\ last.op = "_set_parent_scope"
    /\ \E cls \in Classes :
           /\ classes[cls].base = last.cls
           /\ HasOwnScope(cls)
           /\ classes[cls]._parent_scope # last.scope
           /\ get_parent_scope(cls) = classes[cls]._parent_scope

\* C10: the values an instance holds have exactly its class's member names as
\* keys and are the values supplied at construction, whatever happens later.
C10_ValuesImmutable ==
    \A i \in 1..Len(instances) :
        /\ DictKeySet(values_heap[instances[i]._values]) =
               InheritedNames(instances[i].cls)
        /\ values_heap[instances[i]._values] = instances[i].init

====
